---- MODULE Spec2Model ----
(***************************************************************************)
(* Model of langgraph_math_agent.py: four arithmetic tools, the chatbot /  *)
(* should_continue / tool_node graph built by create_graph, and run_agent, *)
(* which a driver calls once per user turn with the conversation state it  *)
(* got back from the previous call.                                        *)
(*                                                                         *)
(* The language model is an external collaborator: each invocation either  *)
(* raises (provider failure) or returns an AIMessage drawn from a small    *)
(* set.  Identifiers handed out by the provider (message ids, tool call    *)
(* ids) and by uuid4 (add_messages) are fresh; they are drawn from one     *)
(* counter.  Floats are modelled as exact reduced fractions.               *)
(***************************************************************************)
EXTENDS Integers, Sequences, FiniteSets, TLC

VARIABLES
    conversation_state, \* the driver's variable: None or {"messages": [...]}
    messages,           \* state["messages"] of the running graph
    pc,                 \* controller state of the latest run
    running,            \* TRUE while run_agent has not returned or raised
    step,               \* supersteps the running graph has executed
    turn,               \* run_agent calls made so far
    route,              \* what should_continue returned last in this run
    response,           \* answer text run_agent returned last
    err,                \* exception the latest run_agent call raised
    fresh,              \* identifiers handed out so far
    query,              \* history: the query of the latest call
    inputMsgs,          \* history: the driver's messages when the call began
    appended,           \* history: node outputs of this run, in order
    llmInput,           \* history: what the last llm invocation was given
    reasons,            \* history: chatbot executions of this run
    dispatches,         \* history: tool_node executions of this run
    returned,           \* history: the state the latest successful call returned
    submitted,          \* history: the queries run_agent was called with
    loop,               \* where the driver (main, demo_mode) stands
    lastInput,          \* main: the line input() returned last
    pool,               \* ToolNode's executor while it runs one batch
    toolCheck           \* a tool applied to arguments on its own

vars == <<conversation_state, messages, pc, running, step, turn, route,
          response, err, fresh, query, inputMsgs, appended, llmInput,
          reasons, dispatches, returned, submitted, loop, lastInput, pool,
          toolCheck>>

\* what the graph and run_agent never touch
outside == <<loop, lastInput, pool, toolCheck>>

\* what belongs to run_agent and the graph it invokes
runVars == <<conversation_state, messages, pc, running, step, turn, route,
             response, err, fresh, query, inputMsgs, appended, llmInput,
             reasons, dispatches, returned, submitted>>

----------------------------------------------------------------------------
(* Bounds of the model *)

\* run_agent calls a behaviour makes
MaxTurns == 2

\* supersteps graph.invoke executes before it raises GraphRecursionError
\* (the compiled graph's recursion_limit, scaled down)
RecursionLimit == 4

----------------------------------------------------------------------------
(* Text and numbers *)

Digits == <<"0", "1", "2", "3", "4", "5", "6", "7", "8", "9">>

IsDigit(c) == \E i \in 1..10 : Digits[i] = c

DigitVal(c) == (CHOOSE i \in 1..10 : Digits[i] = c) - 1

AllDigits(t) == Len(t) > 0 /\ \A i \in 1..Len(t) : IsDigit(t[i])

RECURSIVE DigitsVal(_)
DigitsVal(t) ==
    IF Len(t) = 0 THEN 0
    ELSE 10 * DigitsVal(SubSeq(t, 1, Len(t) - 1)) + DigitVal(t[Len(t)])

\* float(text) on signed decimal integers; anything else is a ValueError.
\* A text is a tuple of one-character strings.
ParseFloat(t) ==
    IF Len(t) > 1 /\ t[1] \in {"-", "+"} /\ AllDigits(Tail(t))
    THEN [ok |-> TRUE,
          val |-> IF t[1] = "-" THEN 0 - DigitsVal(Tail(t)) ELSE DigitsVal(Tail(t))]
    ELSE IF AllDigits(t) THEN [ok |-> TRUE, val |-> DigitsVal(t)]
    ELSE [ok |-> FALSE, val |-> 0]

Abs(n) == IF n < 0 THEN 0 - n ELSE n

RECURSIVE GCD(_, _)
GCD(a, b) == IF b = 0 THEN a ELSE GCD(b, a % b)

\* the float n/d as a reduced fraction with a positive denominator
Frac(n, d) ==
    LET g == GCD(Abs(n), Abs(d))
        s == IF d < 0 THEN 0 - 1 ELSE 1
    IN [num |-> (s * n) \div g, den |-> (s * d) \div g]

----------------------------------------------------------------------------
(* The tools: each returns [raised, exc, num, den] *)

Returned(f) == [raised |-> FALSE, exc |-> "", num |-> f.num, den |-> f.den]

Raised(e) == [raised |-> TRUE, exc |-> e, num |-> 0, den |-> 1]

InvalidArgument == "ValueError('could not convert string to float')"

DivisionByZero == "ValueError('Cannot divide by zero!')"

plus(a, b) ==
    IF ~ParseFloat(a).ok \/ ~ParseFloat(b).ok THEN Raised(InvalidArgument)
    ELSE Returned(Frac(ParseFloat(a).val + ParseFloat(b).val, 1))

subtract(a, b) ==
    IF ~ParseFloat(a).ok \/ ~ParseFloat(b).ok THEN Raised(InvalidArgument)
    ELSE Returned(Frac(ParseFloat(a).val - ParseFloat(b).val, 1))

multiply(a, b) ==
    IF ~ParseFloat(a).ok \/ ~ParseFloat(b).ok THEN Raised(InvalidArgument)
    ELSE Returned(Frac(ParseFloat(a).val * ParseFloat(b).val, 1))

\* mutant: the zero test reads the numerator
divide_ChecksNumerator(a, b) ==
    IF ~ParseFloat(a).ok \/ ~ParseFloat(b).ok THEN Raised(InvalidArgument)
    ELSE IF ParseFloat(a).val = 0 THEN Raised(DivisionByZero)
    ELSE Returned(Frac(ParseFloat(a).val, ParseFloat(b).val))

divide(a, b) ==
    IF ~ParseFloat(a).ok \/ ~ParseFloat(b).ok THEN Raised(InvalidArgument)
    ELSE IF ParseFloat(b).val = 0 THEN Raised(DivisionByZero)
    ELSE Returned(Frac(ParseFloat(a).val, ParseFloat(b).val))

\* tools = [plus, subtract, multiply, divide]
tools == {"plus", "subtract", "multiply", "divide"}

InvokeTool(name, a, b) ==
    CASE name = "plus" -> plus(a, b)
      [] name = "subtract" -> subtract(a, b)
      [] name = "multiply" -> multiply(a, b)
      [] name = "divide" -> divide(a, b)

----------------------------------------------------------------------------
(* Messages *)

Text(s) == [kind |-> "text", text |-> s, num |-> 0, den |-> 1]

\* an id of 0 is None: the message (or field) has none yet
HumanMessage(q) ==
    [role |-> "human", id |-> 0, content |-> Text(q), tool_calls |-> <<>>,
     tool_call_id |-> 0, status |-> ""]

AIMessage(i, c, calls) ==
    [role |-> "ai", id |-> i, content |-> Text(c), tool_calls |-> calls,
     tool_call_id |-> 0, status |-> ""]

ToolMessage(c, call_id, st) ==
    [role |-> "tool", id |-> 0, content |-> c, tool_calls |-> <<>>,
     tool_call_id |-> call_id, status |-> st]

Last(s) == s[Len(s)]

\* add_messages assigns a uuid4 to every message that has no id
\* (in list order, counting on from n)
AssignIds(msgs, n) ==
    LET without(i) == Cardinality({j \in 1..i : msgs[j].id = 0})
    IN [msgs |-> [i \in 1..Len(msgs) |->
                     IF msgs[i].id = 0 THEN [msgs[i] EXCEPT !.id = n + without(i)]
                     ELSE msgs[i]],
        next |-> n + without(Len(msgs))]

\* add_messages merges right into left: a message whose id is already there
\* replaces it in place, any other is appended
RECURSIVE Merge(_, _)
Merge(merged, right) ==
    IF right = <<>> THEN merged
    ELSE LET m == Head(right)
             same == {i \in 1..Len(merged) : merged[i].id = m.id}
         IN IF same # {}
            THEN Merge([merged EXCEPT ![CHOOSE i \in same : \A j \in same : i <= j] = m],
                       Tail(right))
            ELSE Merge(Append(merged, m), Tail(right))

\* mutant: a channel without reducer, each update overwrites the list
add_messages_Overwrite(left, right, n) ==
    LET r == AssignIds(right, n)
    IN [msgs |-> r.msgs, right |-> r.msgs, next |-> r.next]

\* the reducer of AgentState.messages; returns the new list, the right-hand
\* messages as they were merged, and the identifier counter
add_messages(left, right, n) ==
    LET l == AssignIds(left, n)
        r == AssignIds(right, l.next)
    IN [msgs |-> Merge(l.msgs, r.msgs), right |-> r.msgs, next |-> r.next]

----------------------------------------------------------------------------
(* The language model's possible outputs *)

Queries == {"Divide 4 by 2"}

Answers == {"The answer is 2."}

Call(name, a, b) == [name |-> name, a |-> a, b |-> b]

\* tool call requests a single AIMessage may carry (name, arguments as text)
Batches ==
    { <<Call("divide", <<"4">>, <<"2">>)>>,
      <<Call("divide", <<"1", "0">>, <<"0">>), Call("plus", <<"2", "5">>, <<"1", "7">>)>>,
      <<Call("sqrt", <<"4">>, <<"2">>), Call("multiply", <<"x">>, <<"-", "3">>),
        Call("subtract", <<"7">>, <<"1", "2">>)>> }

Replies ==
    [content : Answers, calls : {<<>>}] \cup [content : {""}, calls : Batches]

\* the provider tags the i-th request of a reply with a fresh call identifier
ToolCalls(calls, n) ==
    [i \in 1..Len(calls) |->
        [name |-> calls[i].name, a |-> calls[i].a, b |-> calls[i].b, id |-> n + i]]

\* llm_with_tools.invoke(history) when the provider answers with reply r
LlmResponse(r, n) ==
    AIMessage(n + Len(r.calls) + 1, r.content, ToolCalls(r.calls, n))

----------------------------------------------------------------------------
(* Graph nodes *)

\* chatbot: {"messages": [llm_with_tools.invoke(state["messages"])]}
chatbot(history, r, n) == <<LlmResponse(r, n)>>

\* hasattr(last_message, "tool_calls"): only AIMessage has the attribute
HasToolCallsAttr(m) == m.role = "ai"

\* mutant: routes on any message of the history, not the last one
should_continue_AnyMessage(msgs) ==
    IF \E i \in 1..Len(msgs) : HasToolCallsAttr(msgs[i]) /\ msgs[i].tool_calls # <<>>
    THEN "tools" ELSE "end"

\* mutant: the attribute is tested, its value is not
should_continue_AttrOnly(msgs) ==
    IF HasToolCallsAttr(Last(msgs)) THEN "tools" ELSE "end"

should_continue(msgs) ==
    LET last_message == Last(msgs)
    IN IF HasToolCallsAttr(last_message) /\ last_message.tool_calls # <<>>
       THEN "tools" ELSE "end"

\* mutant: ToolNode(tools=tools, handle_tool_errors=False)
handle_tool_errors_Off == FALSE

\* ToolNode(tools=tools) keeps the default handle_tool_errors: an exception a
\* tool raises is caught and reported in a ToolMessage
handle_tool_errors == TRUE

\* ToolNode runs one request: an unregistered name and a caught exception
\* both become a ToolMessage with status "error"
RunToolCall(call) ==
    IF call.name \notin tools
    THEN ToolMessage([kind |-> "error", text |-> "Error: not a valid tool",
                      num |-> 0, den |-> 1], call.id, "error")
    ELSE LET out == InvokeTool(call.name, call.a, call.b)
         IN IF out.raised
            THEN ToolMessage([kind |-> "error", text |-> out.exc, num |-> 0, den |-> 1],
                             call.id, "error")
            ELSE ToolMessage([kind |-> "num", text |-> "", num |-> out.num, den |-> out.den],
                             call.id, "success")

\* the request fails inside the tool (InvalidArgument, DivisionByZero)
ToolFails(call) ==
    call.name \in tools /\ InvokeTool(call.name, call.a, call.b).raised

RECURSIVE AllToolCalls(_)
AllToolCalls(msgs) ==
    IF msgs = <<>> THEN <<>> ELSE Head(msgs).tool_calls \o AllToolCalls(Tail(msgs))

\* mutant: runs the requests of every message of the history again
tool_node_AllCalls(msgs) ==
    LET calls == AllToolCalls(msgs)
    IN [i \in 1..Len(calls) |-> RunToolCall(calls[i])]

\* mutant: runs only the first request of the last message
tool_node_FirstOnly(msgs) ==
    LET calls == Last(msgs).tool_calls
    IN [i \in 1..(IF Len(calls) > 0 THEN 1 ELSE 0) |-> RunToolCall(calls[i])]

IsRegistered(call) == call.name \in tools

\* mutant: requests that name no registered tool are dropped
tool_node_SkipUnknown(msgs) ==
    LET calls == SelectSeq(Last(msgs).tool_calls, IsRegistered)
    IN [i \in 1..Len(calls) |-> RunToolCall(calls[i])]

\* tool_node = ToolNode(tools): one ToolMessage per request of the last
\* message, in request order
tool_node(msgs) ==
    LET calls == Last(msgs).tool_calls
    IN [i \in 1..Len(calls) |-> RunToolCall(calls[i])]

\* an exception leaves tool_node only when it is not handled
ToolNodeRaises(msgs) ==
    ~handle_tool_errors /\ \E i \in 1..Len(Last(msgs).tool_calls) :
                               ToolFails(Last(msgs).tool_calls[i])

----------------------------------------------------------------------------
(* Edges of the graph built by create_graph *)

\* workflow.add_edge(START, "chatbot")
StartEdge == "REASON"

\* mutant: the two targets of the conditional edge swapped
ConditionalEdge_Swapped(r) == IF r = "tools" THEN "DONE" ELSE "DISPATCH"

\* mutant: "end" is mapped back to the chatbot node
ConditionalEdge_EndToChatbot(r) == IF r = "tools" THEN "DISPATCH" ELSE "REASON"

\* workflow.add_conditional_edges("chatbot", should_continue,
\*                                {"tools": "tools", "end": END})
ConditionalEdge(r) == IF r = "tools" THEN "DISPATCH" ELSE "DONE"

\* mutant: the tools node leads to END
ToolsEdge_ToEnd == "DONE"

\* workflow.add_edge("tools", "chatbot")
ToolsEdge == "REASON"

----------------------------------------------------------------------------
(* run_agent *)

\* mutant: the graph is invoked with the new message alone
InvokeInput_OnlyQuery(msgs, q) == <<HumanMessage(q)>>

\* what run_agent hands to graph.invoke: the driver's own list, with the new
\* HumanMessage appended to it in place (a fresh list when the driver has None)
InvokeInput(msgs, q) == Append(msgs, HumanMessage(q))

\* mutant: the answer is read from the first message of the result
FinalResponse_First(result) == result[1].content

\* final_message = result["messages"][-1]; response = final_message.content
FinalResponse(result) == Last(result).content

----------------------------------------------------------------------------
(* State machine *)

None == [is_none |-> TRUE, messages |-> <<>>]

State(msgs) == [is_none |-> FALSE, messages |-> msgs]

\* no batch is being run
NoPool == [calls |-> <<>>, done |-> <<>>, orders |-> <<>>, outputs |-> <<>>]

\* no tool has been applied
NoToolCheck == [na |-> 0, nb |-> 0, a |-> <<>>, b |-> <<>>, name |-> "",
                out |-> Raised("")]

InitRun ==
    /\ conversation_state = None
    /\ messages = <<>>
    /\ pc = "NONE"
    /\ running = FALSE
    /\ step = 0
    /\ turn = 0
    /\ route = "none"
    /\ response = Text("")
    /\ err = "none"
    /\ fresh = 0
    /\ query = ""
    /\ inputMsgs = <<>>
    /\ appended = <<>>
    /\ llmInput = <<>>
    /\ reasons = 0
    /\ dispatches = 0
    /\ returned = <<>>
    /\ submitted = <<>>

Init ==
    /\ InitRun
    /\ loop = "idle"
    /\ lastInput = <<>>
    /\ pool = NoPool
    /\ toolCheck = NoToolCheck

\* the driver calls run_agent(q, graph, conversation_state); graph.invoke
\* loads its input through the reducer and schedules chatbot (START -> chatbot)
RunAgentStep(q) ==
    /\ ~running
    /\ LET loaded == add_messages(<<>>, InvokeInput(conversation_state.messages, q), fresh)
       IN /\ conversation_state' =
                IF conversation_state.is_none THEN None ELSE State(loaded.right)
          /\ messages' = loaded.msgs
          /\ fresh' = loaded.next
    /\ pc' = StartEdge
    /\ running' = TRUE
    /\ step' = 0
    /\ turn' = turn + 1
    /\ route' = "none"
    /\ err' = "none"
    /\ query' = q
    /\ inputMsgs' = conversation_state.messages
    /\ appended' = <<>>
    /\ llmInput' = <<>>
    /\ reasons' = 0
    /\ dispatches' = 0
    /\ submitted' = Append(submitted, q)
    /\ UNCHANGED <<response, returned>>

\* a driver that calls run_agent with the state it holds, MaxTurns times
RunAgent(q) ==
    /\ turn < MaxTurns
    /\ RunAgentStep(q)
    /\ UNCHANGED outside

\* the chatbot node runs and the provider answers with reply r
Chatbot(r) ==
    /\ running
    /\ pc = "REASON"
    /\ step < RecursionLimit
    /\ LET n == fresh + Len(r.calls) + 1
           upd == add_messages(messages, chatbot(messages, r, fresh), n)
       IN /\ messages' = upd.msgs
          /\ appended' = appended \o upd.right
          /\ fresh' = upd.next
    /\ llmInput' = messages
    /\ pc' = "ROUTE"
    /\ step' = step + 1
    /\ reasons' = reasons + 1
    /\ UNCHANGED <<conversation_state, running, turn, route, response, err,
                   query, inputMsgs, dispatches, returned, submitted>>
    /\ UNCHANGED outside

\* the chatbot node runs and the provider call raises: the exception leaves
\* graph.invoke and run_agent, and the graph's state is gone
ChatbotRaises ==
    /\ running
    /\ pc = "REASON"
    /\ step < RecursionLimit
    /\ llmInput' = messages
    /\ messages' = <<>>
    /\ pc' = "ABORT"
    /\ running' = FALSE
    /\ err' = "provider"
    /\ UNCHANGED <<conversation_state, step, turn, route, response, fresh,
                   query, inputMsgs, appended, reasons, dispatches, returned,
                   submitted>>
    /\ UNCHANGED outside

\* the conditional edge after chatbot
Route ==
    /\ running
    /\ pc = "ROUTE"
    /\ route' = should_continue(messages)
    /\ pc' = ConditionalEdge(should_continue(messages))
    /\ UNCHANGED <<conversation_state, messages, running, step, turn, response,
                   err, fresh, query, inputMsgs, appended, llmInput, reasons,
                   dispatches, returned, submitted>>
    /\ UNCHANGED outside

\* the tools node runs; its edge leads back to chatbot
Tools ==
    /\ running
    /\ pc = "DISPATCH"
    /\ step < RecursionLimit
    /\ IF ToolNodeRaises(messages)
       THEN /\ messages' = <<>>
            /\ pc' = "ABORT"
            /\ running' = FALSE
            /\ err' = "tool"
            /\ UNCHANGED <<appended, fresh, step, dispatches>>
       ELSE LET upd == add_messages(messages, tool_node(messages), fresh)
            IN /\ messages' = upd.msgs
               /\ appended' = appended \o upd.right
               /\ fresh' = upd.next
               /\ pc' = ToolsEdge
               /\ step' = step + 1
               /\ dispatches' = dispatches + 1
               /\ UNCHANGED <<running, err>>
    /\ UNCHANGED <<conversation_state, turn, route, response, query,
                   inputMsgs, llmInput, reasons, returned, submitted>>
    /\ UNCHANGED outside

\* a node is scheduled but the recursion limit is used up: graph.invoke
\* raises GraphRecursionError, which leaves run_agent
RecursionError ==
    /\ running
    /\ pc \in {"REASON", "DISPATCH"}
    /\ step >= RecursionLimit
    /\ messages' = <<>>
    /\ pc' = "ABORT"
    /\ running' = FALSE
    /\ err' = "recursion"
    /\ UNCHANGED <<conversation_state, step, turn, route, response, fresh,
                   query, inputMsgs, appended, llmInput, reasons, dispatches,
                   returned, submitted>>
    /\ UNCHANGED outside

\* graph.invoke returns its state; run_agent returns the last message's
\* content and that state, which the driver stores
Return ==
    /\ running
    /\ pc = "DONE"
    /\ response' = FinalResponse(messages)
    /\ conversation_state' = State(messages)
    /\ running' = FALSE
    /\ returned' = messages
    /\ UNCHANGED <<messages, pc, step, turn, route, err, fresh, query,
                   inputMsgs, appended, llmInput, reasons, dispatches,
                   submitted>>
    /\ UNCHANGED outside

Next ==
    \/ \E q \in Queries : RunAgent(q)
    \/ \E r \in Replies : Chatbot(r)
    \/ ChatbotRaises
    \/ Route
    \/ Tools
    \/ RecursionError
    \/ Return

Spec == Init /\ [][Next]_vars

\* graph.invoke and run_agent run on one thread until they return or raise:
\* once chatbot has returned, the conditional edge is evaluated, and once the
\* graph has reached END, run_agent returns.  Nothing is assumed about the
\* nodes themselves (the provider may never answer) nor about the driver.
AfterReasoning == Route \/ Return

SpecFair == Init /\ [][Next]_vars /\ WF_vars(AfterReasoning)

\* the runs in which nothing raises: the provider answers every call and no
\* run is cut off by the recursion limit
NextClean ==
    \/ \E q \in Queries : RunAgent(q)
    \/ \E r \in Replies : Chatbot(r)
    \/ Route
    \/ Tools
    \/ Return

SpecClean == Init /\ [][NextClean]_vars

----------------------------------------------------------------------------
(* ToolNode running one batch of requests on its executor *)

\* times the same batch is dispatched
DispatchRuns == 2

\* mutant: the results are taken as the calls complete
CollectResults_AsCompleted(calls, done) ==
    [k \in 1..Len(calls) |-> RunToolCall(calls[done[k]])]

\* outputs = [*executor.map(run_one, tool_calls)]: the k-th output is the
\* result of the k-th request, whenever that request completed
CollectResults(calls, done) ==
    [k \in 1..Len(calls) |-> RunToolCall(calls[k])]

InitPool ==
    /\ InitRun
    /\ loop = "idle"
    /\ lastInput = <<>>
    /\ toolCheck = NoToolCheck
    /\ \E b \in Batches : pool = [NoPool EXCEPT !.calls = ToolCalls(b, 0)]

\* request i of the batch completes on its thread
Complete(i) ==
    /\ Len(pool.outputs) < DispatchRuns
    /\ i \in 1..Len(pool.calls)
    /\ \A k \in 1..Len(pool.done) : pool.done[k] # i
    /\ pool' = [pool EXCEPT !.done = Append(pool.done, i)]
    /\ UNCHANGED <<runVars, loop, lastInput, toolCheck>>

\* all requests have completed: the node returns its outputs
Collect ==
    /\ Len(pool.outputs) < DispatchRuns
    /\ Len(pool.done) = Len(pool.calls)
    /\ pool' = [pool EXCEPT !.outputs = Append(pool.outputs,
                                               CollectResults(pool.calls, pool.done)),
                             !.orders = Append(pool.orders, pool.done),
                             !.done = <<>>]
    /\ UNCHANGED <<runVars, loop, lastInput, toolCheck>>

NextPool ==
    \/ \E i \in 1..Len(pool.calls) : Complete(i)
    \/ Collect

SpecPool == InitPool /\ [][NextPool]_vars

----------------------------------------------------------------------------
(* A tool applied to two integers given as text *)

\* largest magnitude of an argument
MaxArg == 12

RECURSIVE NatToText(_)
NatToText(n) ==
    IF n < 10 THEN <<Digits[n + 1]>>
    ELSE NatToText(n \div 10) \o <<Digits[(n % 10) + 1]>>

\* the integer n written out, as the reasoning step passes it: a: str
IntToText(n) == IF n < 0 THEN <<"-">> \o NatToText(0 - n) ELSE NatToText(n)

\* the texts an integer is given as; zero also comes as "-0"
Spellings(n) == {IntToText(n)} \cup (IF n = 0 THEN {<<"-", "0">>} ELSE {})

InitTools ==
    /\ InitRun
    /\ loop = "idle"
    /\ lastInput = <<>>
    /\ pool = NoPool
    /\ \E na \in (0 - MaxArg)..MaxArg, nb \in (0 - MaxArg)..MaxArg :
          \E a \in Spellings(na), b \in Spellings(nb) :
              toolCheck = [NoToolCheck EXCEPT !.na = na, !.nb = nb, !.a = a, !.b = b]

\* the tool called name is invoked with the two texts
ApplyTool(name) ==
    /\ toolCheck.name = ""
    /\ toolCheck.a # <<>>
    /\ toolCheck' = [toolCheck EXCEPT !.name = name,
                                      !.out = InvokeTool(name, toolCheck.a, toolCheck.b)]
    /\ UNCHANGED <<runVars, loop, lastInput, pool>>

NextTools == \E name \in tools : ApplyTool(name)

SpecTools == InitTools /\ [][NextTools]_vars

----------------------------------------------------------------------------
(* The interactive driver: main *)

\* characters str.strip() removes
Whitespace == {" ", "\t"}

RECURSIVE LStrip(_)
LStrip(t) == IF t # <<>> /\ Head(t) \in Whitespace THEN LStrip(Tail(t)) ELSE t

RECURSIVE RStrip(_)
RStrip(t) ==
    IF t # <<>> /\ t[Len(t)] \in Whitespace THEN RStrip(SubSeq(t, 1, Len(t) - 1))
    ELSE t

\* input("You: ").strip(); a line is a tuple of one-character strings
Strip(t) == LStrip(RStrip(t))

LowerCase == <<"a", "b", "c", "d", "e", "f", "g", "h", "i", "j", "k", "l", "m",
               "n", "o", "p", "q", "r", "s", "t", "u", "v", "w", "x", "y", "z">>

UpperCase == <<"A", "B", "C", "D", "E", "F", "G", "H", "I", "J", "K", "L", "M",
               "N", "O", "P", "Q", "R", "S", "T", "U", "V", "W", "X", "Y", "Z">>

\* user_input.upper(): lower-case letters are mapped, all else is kept
Upper(t) ==
    [i \in 1..Len(t) |->
        IF \E k \in 1..Len(LowerCase) : LowerCase[k] = t[i]
        THEN UpperCase[CHOOSE k \in 1..Len(LowerCase) : LowerCase[k] = t[i]]
        ELSE t[i]]

\* the text of a line as one string
RECURSIVE Join(_)
Join(t) == IF t = <<>> THEN "" ELSE Head(t) \o Join(Tail(t))

\* "<QUIT>" and "QUIT"
QuitCommands == {<<"<", "Q", "U", "I", "T", ">">>, <<"Q", "U", "I", "T">>}

\* mutant: the command is compared as typed
IsQuit_CaseSensitive(user_input) == user_input \in QuitCommands

\* user_input.upper() == "<QUIT>" or user_input.upper() == "QUIT"
IsQuit(user_input) == Upper(user_input) \in QuitCommands

\* mutant: the handler of Exception leaves the loop
OnError_Break == "ended"

\* except Exception: the message is printed and the loop goes on
OnError == "input"

\* input() has not returned a line yet
NoLine == <<"none">>

\* input() raised KeyboardInterrupt instead of returning a line
Interrupted == <<"^C">>

\* lines the user types at the prompt
Lines ==
    { <<>>, <<" ">>, <<"\t", " ">>,
      <<"q", "u", "i", "t">>, <<" ", "<", "Q", "u", "i", "t", ">", " ">>,
      <<"Q", "U", "I", "T">>,
      <<"<", "q", "u", "i", "t">>, <<" ", "4", "/", "2", " ">> }

\* replies of the provider while a driver runs: an answer, or one request
DriverReplies == {r \in Replies : Len(r.calls) <= 1}

InitMain ==
    /\ InitRun
    /\ loop = "input"
    /\ lastInput = NoLine
    /\ pool = NoPool
    /\ toolCheck = NoToolCheck

\* one pass of the while loop up to the call of run_agent: the line is read
\* and stripped, a quit command breaks, an empty line continues, anything
\* else is handed to run_agent with the state main holds
MainInput(line) ==
    /\ loop = "input"
    /\ lastInput' = line
    /\ IF IsQuit(Strip(line))
       THEN loop' = "ended" /\ UNCHANGED runVars
       ELSE IF Strip(line) = <<>>
       THEN loop' = "input" /\ UNCHANGED runVars
       ELSE /\ turn < MaxTurns
            /\ RunAgentStep(Join(Strip(line)))
            /\ loop' = "agent"
    /\ UNCHANGED <<pool, toolCheck>>

\* run_agent has returned: the response is printed, the loop goes on
MainPrint ==
    /\ loop = "agent"
    /\ ~running
    /\ pc = "DONE"
    /\ loop' = "input"
    /\ UNCHANGED <<runVars, lastInput, pool, toolCheck>>

\* run_agent has raised an Exception: the handler runs
MainExcept ==
    /\ loop = "agent"
    /\ ~running
    /\ pc = "ABORT"
    /\ loop' = OnError
    /\ UNCHANGED <<runVars, lastInput, pool, toolCheck>>

\* Ctrl-C at the prompt: input() raises KeyboardInterrupt, the loop breaks
InterruptAtPrompt ==
    /\ loop = "input"
    /\ lastInput' = Interrupted
    /\ loop' = "ended"
    /\ UNCHANGED <<runVars, pool, toolCheck>>

\* Ctrl-C while run_agent runs: KeyboardInterrupt leaves graph.invoke and
\* run_agent, and the loop breaks
InterruptInTurn ==
    /\ loop = "agent"
    /\ running
    /\ messages' = <<>>
    /\ pc' = "ABORT"
    /\ running' = FALSE
    /\ err' = "interrupt"
    /\ loop' = "ended"
    /\ UNCHANGED <<conversation_state, step, turn, route, response, fresh,
                   query, inputMsgs, appended, llmInput, reasons, dispatches,
                   returned, submitted>>
    /\ UNCHANGED <<lastInput, pool, toolCheck>>

NextMain ==
    \/ \E line \in Lines : MainInput(line)
    \/ MainPrint
    \/ MainExcept
    \/ InterruptAtPrompt
    \/ InterruptInTurn
    \/ \E r \in DriverReplies : Chatbot(r)
    \/ ChatbotRaises
    \/ Route
    \/ Tools
    \/ RecursionError
    \/ Return

SpecMain == InitMain /\ [][NextMain]_vars

----------------------------------------------------------------------------
(* The scripted driver: demo_mode *)

test_queries ==
    << "What is 25 plus 17?",
       "Calculate 100 minus 45",
       "What is 8 multiplied by 7?",
       "Divide 144 by 12",
       "What is the capital of France?",
       "Explain what artificial intelligence is in one sentence" >>

\* mutant: the exception of a query is not caught and ends the demo
OnDemoError_Abort == "completed"

\* except Exception inside the for loop: the error is printed and the loop
\* goes on with the next query
OnDemoError == "demo"

InitDemo ==
    /\ InitRun
    /\ loop = "demo"
    /\ lastInput = <<>>
    /\ pool = NoPool
    /\ toolCheck = NoToolCheck

\* for query in test_queries: the next query is handed to run_agent with the
\* state demo_mode holds
DemoQuery ==
    /\ loop = "demo"
    /\ turn < Len(test_queries)
    /\ RunAgentStep(test_queries[turn + 1])
    /\ loop' = "agent"
    /\ UNCHANGED <<lastInput, pool, toolCheck>>

\* run_agent has returned: the response is printed
DemoPrint ==
    /\ loop = "agent"
    /\ ~running
    /\ pc = "DONE"
    /\ loop' = "demo"
    /\ UNCHANGED <<runVars, lastInput, pool, toolCheck>>

\* run_agent has raised an Exception
DemoExcept ==
    /\ loop = "agent"
    /\ ~running
    /\ pc = "ABORT"
    /\ loop' = OnDemoError
    /\ UNCHANGED <<runVars, lastInput, pool, toolCheck>>

\* the list is exhausted: "Demo completed!"
DemoCompleted ==
    /\ loop = "demo"
    /\ turn = Len(test_queries)
    /\ loop' = "completed"
    /\ UNCHANGED <<runVars, lastInput, pool, toolCheck>>

NextDemo ==
    \/ DemoQuery
    \/ DemoPrint
    \/ DemoExcept
    \/ DemoCompleted
    \/ \E r \in DriverReplies : Chatbot(r)
    \/ ChatbotRaises
    \/ Route
    \/ Tools
    \/ RecursionError
    \/ Return

SpecDemo == InitDemo /\ [][NextDemo]_vars

----------------------------------------------------------------------------
(* Properties *)

IsPrefix(s, t) == Len(s) <= Len(t) /\ SubSeq(t, 1, Len(s)) = s

CarriesToolCalls(m) == m.role = "ai" /\ Len(m.tool_calls) >= 1

\* C1: the router returns "tools" exactly when the last message is an
\* assistant message with at least one tool call request and "end"
\* otherwise, the decision recorded at ROUTE is that one, and dropping any
\* number of earlier messages from the history does not change the result.
C1_RouterLastMessage ==
    /\ messages # <<>> =>
        /\ should_continue(messages) = "tools" <=> CarriesToolCalls(Last(messages))
        /\ should_continue(messages) = "end" <=> ~CarriesToolCalls(Last(messages))
        /\ \A i \in 1..Len(messages) :
              should_continue(SubSeq(messages, i, Len(messages)))
                 = should_continue(messages)
    /\ pc = "DISPATCH" => route = "tools" /\ CarriesToolCalls(Last(messages))
    /\ pc = "DONE" => route = "end" /\ ~CarriesToolCalls(Last(messages))

\* a final answer is routed to "end" although an earlier assistant message
\* of the history carried tool calls
C1_Witness ==
    /\ pc = "DONE"
    /\ route = "end"
    /\ \E i \in 1..Len(messages) - 1 : CarriesToolCalls(messages[i])

ControllerSteps ==
    { <<"REASON", "ROUTE">>, <<"ROUTE", "DISPATCH">>, <<"ROUTE", "DONE">>,
      <<"DISPATCH", "REASON">> }

\* C2: a run starts in REASON; within a run the controller state changes
\* only along REASON -> ROUTE, ROUTE -> DISPATCH (exactly when the router
\* returns "tools"), ROUTE -> DONE (exactly when it returns "end") and
\* DISPATCH -> REASON, unless the run is aborted by an exception; DISPATCH
\* is entered only right after a REASON whose output carries tool calls,
\* and DONE is not left.
C2_Transitions ==
    [][ /\ turn' # turn => pc' = "REASON"
        /\ (turn' = turn /\ pc' # pc /\ pc' # "ABORT") => <<pc, pc'>> \in ControllerSteps
        /\ (pc = "ROUTE" /\ pc' # pc) =>
              /\ pc' = "DISPATCH" <=> should_continue(messages) = "tools"
              /\ pc' = "DONE" <=> should_continue(messages) = "end"
        /\ (pc' = "DISPATCH" /\ pc # "DISPATCH") =>
              /\ reasons' >= 1
              /\ appended' # <<>>
              /\ Last(appended') = Last(messages')
              /\ CarriesToolCalls(Last(messages'))
        /\ (pc = "DONE" /\ turn' = turn) => pc' = "DONE"
      ]_vars

\* a run went REASON, ROUTE, DISPATCH, REASON, ROUTE, DONE and returned
C2_Witness ==
    /\ pc = "DONE"
    /\ ~running
    /\ reasons = 2
    /\ dispatches = 1

\* C3: the conversation state only grows at its end: the driver's list is
\* a prefix of what it becomes in every step, the running graph's list is
\* a prefix of what it becomes in every step of the run, the graph starts
\* from a list the driver's list is a prefix of, and a returning run hands
\* the graph's list to the driver.
C3_AppendOnly ==
    [][ /\ IsPrefix(conversation_state.messages, conversation_state'.messages)
        /\ (running /\ running') => IsPrefix(messages, messages')
        /\ (~running /\ running') =>
              /\ IsPrefix(conversation_state.messages, messages')
              /\ Len(messages') = Len(conversation_state.messages) + 1
        /\ (running /\ ~running' /\ err' = "none") =>
              /\ IsPrefix(conversation_state.messages, messages)
              /\ conversation_state'.messages = messages
      ]_vars

\* the second turn returned a state that holds the first turn's messages,
\* tool results included
C3_Witness ==
    /\ turn = 2
    /\ pc = "DONE"
    /\ ~running
    /\ Len(inputMsgs) >= 4
    /\ IsPrefix(inputMsgs, conversation_state.messages)
    /\ Len(conversation_state.messages) >= Len(inputMsgs) + 4

\* the tool call requests of message i of msgs that carry identifier id
RequestsFor(msgs, i, id) ==
    {k \in 1..Len(msgs[i].tool_calls) : msgs[i].tool_calls[k].id = id}

\* the positions of msgs holding a tool-result for identifier id
ResultsFor(msgs, id) ==
    {j \in 1..Len(msgs) : msgs[j].role = "tool" /\ msgs[j].tool_call_id = id}

\* every tool-result of msgs answers a request made earlier in msgs that no
\* earlier tool-result had answered
ResultsAnswerRequests(msgs) ==
    \A j \in 1..Len(msgs) :
        msgs[j].role = "tool" =>
            /\ \E i \in 1..(j - 1) :
                  msgs[i].role = "ai" /\ RequestsFor(msgs, i, msgs[j].tool_call_id) # {}
            /\ \A k \in 1..(j - 1) : k \notin ResultsFor(msgs, msgs[j].tool_call_id)

\* C4: in the graph's list and in the driver's list, every tool-result
\* message carries the call identifier of a request that occurs earlier in
\* the list and that no earlier tool-result of the list answers.
C4_ResultsMatchRequests ==
    /\ ResultsAnswerRequests(messages)
    /\ ResultsAnswerRequests(conversation_state.messages)

\* a second dispatch of a run has appended its results after those of the
\* first
C4_Witness ==
    /\ running
    /\ dispatches = 2
    /\ pc = "REASON"
    /\ Cardinality({j \in 1..Len(messages) : messages[j].role = "tool"}) >= 3

\* every request of every assistant message of msgs has exactly one
\* tool-result in msgs
EveryRequestAnsweredOnce(msgs) ==
    \A i \in 1..Len(msgs) : \A k \in 1..Len(msgs[i].tool_calls) :
        Cardinality(ResultsFor(msgs, msgs[i].tool_calls[k].id)) = 1

LastAI(msgs) ==
    CHOOSE i \in 1..Len(msgs) :
        /\ msgs[i].role = "ai"
        /\ \A j \in (i + 1)..Len(msgs) : msgs[j].role # "ai"

\* C5: when the controller is back in REASON after a DISPATCH, each request
\* of the newest assistant message has exactly one tool-result message, all
\* of them after that message and nothing else after it; and every history
\* the reasoning step was invoked with has exactly one tool-result for each
\* request in it.
C5_RequestsConsumedOnce ==
    /\ (running /\ pc = "REASON" /\ dispatches >= 1) =>
          LET i == LastAI(messages)
              calls == messages[i].tool_calls
          IN /\ Len(messages) = i + Len(calls)
             /\ \A k \in 1..Len(calls) :
                   /\ Cardinality(ResultsFor(messages, calls[k].id)) = 1
                   /\ \A j \in ResultsFor(messages, calls[k].id) : j > i
    /\ EveryRequestAnsweredOnce(llmInput)

\* the reasoning step was invoked after a dispatch of two requests
C5_Witness ==
    /\ pc = "ROUTE"
    /\ dispatches >= 1
    /\ \E i \in 1..Len(llmInput) : Len(llmInput[i].tool_calls) = 2
    /\ llmInput # <<>> /\ Last(llmInput).role = "tool"

IsInputThenQueryThen(msgs, outs) ==
    LET n == Len(inputMsgs)
    IN /\ Len(msgs) = n + 1 + Len(outs)
       /\ SubSeq(msgs, 1, n) = inputMsgs
       /\ [msgs[n + 1] EXCEPT !.id = 0] = HumanMessage(query)
       /\ SubSeq(msgs, n + 2, Len(msgs)) = outs

\* C7 as claimed: after a turn in which the provider failed, the driver's
\* conversation state is what it was before the turn began (it does not hold
\* the failed turn's user message).
C7_FailedTurnLeavesStateUntouched ==
    err = "provider" => conversation_state.messages = inputMsgs

\* C8 as claimed: when the run is aborted at the iteration limit, it has run
\* whole REASON/DISPATCH cycles only, and the conversation state holds the
\* messages of all of them.
C8_LimitKeepsWholeCycles ==
    err = "recursion" =>
        /\ reasons = dispatches
        /\ IsInputThenQueryThen(conversation_state.messages, appended)

\* C9: when run_agent has returned, the last message of the returned state
\* is an assistant message without tool call requests, the answer is that
\* message's content, and the returned state is the input state, then the
\* new user message, then every message the run appended, in order.
C9_ReturnsAnswerAndFullState ==
    (~running /\ pc = "DONE") =>
        /\ ~conversation_state.is_none
        /\ Last(conversation_state.messages).role = "ai"
        /\ Last(conversation_state.messages).tool_calls = <<>>
        /\ response = Last(conversation_state.messages).content
        /\ response = Last(appended).content
        /\ IsInputThenQueryThen(conversation_state.messages, appended)

\* the second turn returned after a dispatch
C9_Witness ==
    /\ ~running
    /\ pc = "DONE"
    /\ turn = 2
    /\ inputMsgs # <<>>
    /\ dispatches >= 1
    /\ response = Text("The answer is 2.")

\* C10: whenever the reasoning step is invoked, it is given the driver's
\* list as it was when the call began, the call's user message and all that
\* the run has appended so far, in order; the message it returns is appended
\* as it is, as the newest message.
C10_FullHistoryToReasoning ==
    [][ (pc = "REASON" /\ pc' # pc /\ err' # "recursion") =>
            /\ IsInputThenQueryThen(llmInput', appended)
            /\ pc' = "ROUTE" =>
                  \E r \in Replies :
                      messages' = llmInput' \o <<LlmResponse(r, fresh)>>
      ]_vars

\* in a second turn the reasoning step was invoked after a dispatch, with
\* the first turn's messages in its history
C10_Witness ==
    /\ turn = 2
    /\ pc = "ROUTE"
    /\ dispatches >= 1
    /\ Len(inputMsgs) >= 2
    /\ Len(llmInput) >= Len(inputMsgs) + 3

\* C12: a run whose first reasoning output requests no tools makes exactly
\* one REASON step and no DISPATCH, is never aborted, and once in DONE its
\* list is the input state, the user message and that one output; what
\* run_agent then returns is that list.
C12_RoundTripWithoutTools ==
    (appended # <<>> /\ ~CarriesToolCalls(appended[1])) =>
        /\ reasons = 1
        /\ dispatches = 0
        /\ Len(appended) = 1
        /\ pc \in {"ROUTE", "DONE"}
        /\ pc = "DONE" =>
              /\ Len(messages) = Len(inputMsgs) + 2
              /\ IsInputThenQueryThen(messages, appended)
        /\ ~running =>
              /\ pc = "DONE"
              /\ conversation_state.messages = messages

\* a second turn answered without tools and returned
C12_Witness ==
    /\ turn = 2
    /\ ~running
    /\ pc = "DONE"
    /\ Len(appended) = 1
    /\ Len(conversation_state.messages) = Len(inputMsgs) + 2

\* C13: a DISPATCH step appends one tool-result per request; for a request
\* whose name is not registered it is an error result tagged with the
\* request's identifier, for a request of a registered tool it is what the
\* tool gives for the request's arguments, and the step leads back to
\* REASON with the run still going.
C13_UnknownToolIsData ==
    [][ (pc = "DISPATCH" /\ pc' # pc /\ err' # "recursion") =>
            LET calls == Last(messages).tool_calls
                n == Len(messages)
            IN /\ pc' = "REASON"
               /\ running'
               /\ Len(messages') = n + Len(calls)
               /\ \A k \in 1..Len(calls) :
                     /\ messages'[n + k].role = "tool"
                     /\ messages'[n + k].tool_call_id = calls[k].id
                     /\ calls[k].name \notin tools =>
                           /\ messages'[n + k].status = "error"
                           /\ messages'[n + k].content.kind = "error"
                     /\ calls[k].name \in tools =>
                           LET out == InvokeTool(calls[k].name, calls[k].a, calls[k].b)
                           IN IF out.raised
                              THEN messages'[n + k].content.text = out.exc
                              ELSE /\ messages'[n + k].status = "success"
                                   /\ messages'[n + k].content.kind = "num"
                                   /\ messages'[n + k].content.num = out.num
                                   /\ messages'[n + k].content.den = out.den
      ]_vars

\* a batch with an unregistered name was dispatched: its error result is in
\* the list, and so is the number subtract gave for the same batch
C13_Witness ==
    /\ running
    /\ pc = "REASON"
    /\ Len(messages) >= 4
    /\ messages[Len(messages) - 2].content.text = "Error: not a valid tool"
    /\ messages[Len(messages) - 2].status = "error"
    /\ Last(messages).status = "success"
    /\ Last(messages).content.num = 0 - 5

\* C11: whatever the order in which the requests of a batch complete, the
\* outputs of a dispatch are in request order (the k-th output carries the
\* k-th request's identifier and is what tool_node gives for the batch),
\* and every dispatch of the same batch gives the same outputs.
C11_ResultsInRequestOrder ==
    \A r \in 1..Len(pool.outputs) :
        /\ Len(pool.outputs[r]) = Len(pool.calls)
        /\ \A k \in 1..Len(pool.calls) :
              pool.outputs[r][k].tool_call_id = pool.calls[k].id
        /\ pool.outputs[r] = tool_node(<<AIMessage(0, "", pool.calls)>>)
        /\ pool.outputs[r] = pool.outputs[1]

\* a batch of three was dispatched twice, its requests completing in two
\* different orders, the first time the last request first
C11_Witness ==
    /\ Len(pool.outputs) = 2
    /\ Len(pool.calls) = 3
    /\ pool.orders[1][1] = 3
    /\ pool.orders[1] # pool.orders[2]

\* C14: for integers na and nb given as text, divide fails, with the
\* division-by-zero error, exactly when nb is zero (written "0" or "-0"),
\* and otherwise returns the quotient of na by nb.
C14_DivideByZeroIffZero ==
    toolCheck.name = "divide" =>
        /\ toolCheck.out.raised <=> toolCheck.nb = 0
        /\ toolCheck.out.raised => toolCheck.out.exc = DivisionByZero
        /\ ~toolCheck.out.raised =>
              /\ toolCheck.out.den > 0
              /\ toolCheck.out.num * toolCheck.nb = toolCheck.na * toolCheck.out.den

\* divide("-12", "-0") failed with the division-by-zero error
C14_Witness ==
    /\ toolCheck.name = "divide"
    /\ toolCheck.a = <<"-", "1", "2">>
    /\ toolCheck.b = <<"-", "0">>
    /\ toolCheck.out.raised
    /\ toolCheck.out.exc = DivisionByZero

\* C15: once the reasoning step has returned a message without tool call
\* requests, the run reaches DONE and run_agent returns without an error;
\* a run in DONE has made exactly one REASON step more than DISPATCH steps.
C15_AnswerLeadsToDone ==
    /\ (running /\ pc = "ROUTE" /\ ~CarriesToolCalls(Last(messages)))
          ~> (~running /\ pc = "DONE" /\ err = "none")
    /\ [](pc = "DONE" => reasons = dispatches + 1)

\* a run returned in DONE after two REASON steps and one DISPATCH step
C15_Witness ==
    /\ ~running
    /\ pc = "DONE"
    /\ err = "none"
    /\ reasons = 2
    /\ dispatches = 1
    /\ turn = 2

\* C16: in main, a turn that ends with an exception leaves the loop at the
\* prompt, and the state main holds then, which is the state the next turn is
\* run with, begins with the messages the latest successful turn returned;
\* these in turn begin with what every earlier successful turn returned.
C16_FailedTurnKeepsLoopAndHistory ==
    [][ /\ (loop = "agent" /\ ~running /\ pc = "ABORT" /\ loop' # loop)
              => /\ loop' = "input"
                 /\ IsPrefix(returned, conversation_state'.messages)
        /\ (loop = "input" /\ loop' = "agent")
              => /\ inputMsgs' = conversation_state.messages
                 /\ IsPrefix(returned, inputMsgs')
                 /\ IsPrefix(returned, messages')
        /\ IsPrefix(returned, returned') ]_vars

\* the second turn failed after a first that returned, and main is back at
\* the prompt holding the first turn's messages
C16_Witness ==
    /\ loop = "input"
    /\ turn = 2
    /\ err = "provider"
    /\ Len(returned) >= 2
    /\ IsPrefix(returned, conversation_state.messages)
    /\ lastInput = <<" ", "4", "/", "2", " ">>

\* the line consists of whitespace only (or of nothing)
IsBlank(line) == \A i \in 1..Len(line) : line[i] \in Whitespace

\* the line from its first to its last character that is not whitespace
Core(line) ==
    LET solid == {i \in 1..Len(line) : line[i] \notin Whitespace}
    IN IF solid = {} THEN <<>>
       ELSE SubSeq(line, CHOOSE i \in solid : \A j \in solid : i <= j,
                         CHOOSE i \in solid : \A j \in solid : j <= i)

\* the two texts differ at most in the case of their letters
SameIgnoringCase(a, b) ==
    /\ Len(a) = Len(b)
    /\ \A i \in 1..Len(a) :
          \/ a[i] = b[i]
          \/ \E k \in 1..Len(LowerCase) : {a[i], b[i]} = {LowerCase[k], UpperCase[k]}

IsQuitCommand(line) == \E c \in QuitCommands : SameIgnoringCase(Core(line), c)

\* C18: in main, a line read at the prompt that is blank changes nothing of
\* the conversation and keeps the loop at the prompt; a quit command changes
\* nothing of the conversation and ends the loop; any other line starts
\* exactly one run_agent call, on the state main holds, with the line's text;
\* and run_agent is called at no other step.
C18_InputDispatch ==
    [][ /\ (loop = "input" /\ lastInput' # Interrupted)
              => /\ IsBlank(lastInput')
                      => UNCHANGED runVars /\ loop' = "input"
                 /\ IsQuitCommand(lastInput')
                      => UNCHANGED runVars /\ loop' = "ended"
                 /\ (~IsBlank(lastInput') /\ ~IsQuitCommand(lastInput'))
                      => /\ loop' = "agent"
                         /\ running'
                         /\ turn' = turn + 1
                         /\ submitted' = Append(submitted, Join(Core(lastInput')))
                         /\ inputMsgs' = conversation_state.messages
                         /\ Len(messages') = Len(conversation_state.messages) + 1
                         /\ Last(messages').role = "human"
                         /\ Last(messages').content = Text(Join(Core(lastInput')))
        /\ (turn' # turn \/ submitted' # submitted)
              => loop = "input" /\ loop' = "agent" /\ turn' = turn + 1 ]_vars

\* "<quit" was no quit command and was answered; " <Quit> " then ended the loop
C18_Witness ==
    /\ loop = "ended"
    /\ lastInput = <<" ", "<", "Q", "u", "i", "t", ">", " ">>
    /\ submitted = <<"<quit">>
    /\ ~conversation_state.is_none
    /\ pc = "DONE"

\* the messages are turns of one user message followed by assistant messages:
\* an assistant message with n requests is followed by the n results of
\* these requests and then by an assistant message, one without requests
\* closes the turn
RolePattern(msgs) ==
    /\ msgs # <<>> => msgs[1].role = "human"
    /\ \A i \in 1..Len(msgs) :
          LET m == msgs[i]
              n == Len(m.tool_calls)
          IN /\ m.role = "human" => i < Len(msgs) /\ msgs[i + 1].role = "ai"
             /\ CarriesToolCalls(m)
                   => /\ i + n + 1 <= Len(msgs)
                      /\ \A k \in 1..n : /\ msgs[i + k].role = "tool"
                                        /\ msgs[i + k].tool_call_id = m.tool_calls[k].id
                      /\ msgs[i + n + 1].role = "ai"
             /\ (m.role = "ai" /\ ~CarriesToolCalls(m))
                   => i = Len(msgs) \/ msgs[i + 1].role = "human"
             /\ m.role = "tool"
                   => \E j \in 1..(i - 1) : /\ CarriesToolCalls(msgs[j])
                                            /\ i <= j + Len(msgs[j].tool_calls)

\* C17: when all turns so far have returned without an error, the state the
\* driver holds follows the role pattern; so a user message is followed by
\* an assistant message, and no tool result and no user message has a user
\* message on its left.
C17_RolesFollowPattern ==
    (~running /\ ~conversation_state.is_none)
        => LET msgs == conversation_state.messages
           IN /\ RolePattern(msgs)
              /\ \A i \in 1..Len(msgs) :
                    msgs[i].role = "human"
                        => /\ i < Len(msgs)
                           /\ msgs[i + 1].role = "ai"
              /\ \A i \in 2..Len(msgs) :
                    msgs[i].role \in {"tool", "human"} => msgs[i - 1].role # "human"

\* two turns have returned, the second after a batch of three requests
C17_Witness ==
    /\ ~running
    /\ turn = 2
    /\ pc = "DONE"
    /\ conversation_state.messages = returned
    /\ \E i \in 1..Len(returned) :
          /\ Len(returned[i].tool_calls) = 3
          /\ \E j \in 1..(i - 1) : returned[j].role = "human" /\ j > 1

\* C19: demo_mode hands its queries to run_agent one by one in list order,
\* each with the state it holds, which after a query that returned is the
\* state that query returned; a query that raised is followed by the next
\* one; the demo completes only when all queries have been submitted, each
\* once, and does nothing afterwards.
C19_DemoSubmitsAllInOrder ==
    [][ /\ (loop = "demo" /\ loop' = "agent")
              => /\ submitted' = SubSeq(test_queries, 1, Len(submitted) + 1)
                 /\ query' = test_queries[Len(submitted) + 1]
                 /\ inputMsgs' = conversation_state.messages
                 /\ IsPrefix(returned, inputMsgs')
                 /\ (Len(submitted) > 0 /\ err = "none")
                       => inputMsgs' = returned /\ returned # <<>>
        /\ submitted' # submitted => loop = "demo" /\ loop' = "agent"
        /\ (loop = "agent" /\ ~running /\ pc = "ABORT" /\ loop' # loop)
              => loop' = "demo"
        /\ loop' = "completed" => submitted' = test_queries /\ ~running'
        /\ loop # "completed" ]_vars

\* the demo completed although a query raised on the way: its user message
\* is followed by the next query's, and a later query used a tool
C19_Witness ==
    /\ loop = "completed"
    /\ submitted = test_queries
    /\ err = "none"
    /\ LET msgs == conversation_state.messages
       IN /\ \E i \in 1..(Len(msgs) - 1) :
                /\ msgs[i].role = "human" /\ msgs[i + 1].role = "human"
                /\ \E j \in (i + 1)..Len(msgs) : msgs[j].role = "tool"
          /\ Last(msgs).role = "ai"

====
